---- MODULE Spec2Model ----
\* A model of src/react/addUrlProps.js: the higher order component that injects
\* URL query parameters as props and generates change handlers that write
\* them back to the URL.
EXTENDS Integers, Sequences, FiniteSets, TLC

\* ---------------------------------------------------------------- bounds

\* Most entries the browser history may hold (pushIn is capped there).
MaxHistory == 2

\* Most function objects the handler generation may allocate.
MaxFunctions == 6

\* The component instances of the one wrapped class.
Instances == {1, 2}

\* ---------------------------------------------------------------- names
\* A JavaScript string used as a key is the pair <<first character, rest>>,
\* which is what propName[0] and propName.substring(1) take apart.

n_foo == <<"f", "oo">>
n_Foo == <<"F", "oo">>
n_bar == <<"b", "ar">>
n_q == <<"q", "">>
n_id == <<"i", "d">>
n_title == <<"t", "itle">>
n_location == <<"l", "ocation">>
n_params == <<"p", "arams">>
n_onChangeBar == <<"o", "nChangeBar">>
n_onManual == <<"o", "nManual">>

\* String.prototype.toUpperCase on one character.
toUpperCase(c) ==
  CASE c = "f" -> "F"
    [] c = "b" -> "B"
    [] c = "q" -> "Q"
    [] c = "i" -> "I"
    [] c = "t" -> "T"
    [] OTHER -> c

defaultChangeHandlerName(propName) ==
  <<"o", "nChange" \o toUpperCase(propName[1]) \o propName[2]>>

\* A custom naming function given as the wrapper option: p => `set${p}`.
optionChangeHandlerName(propName) == <<"s", "et" \o propName[1] \o propName[2]>>

\* A custom naming function set in urlQueryConfig: p => `update${p}`.
globalChangeHandlerName(propName) == <<"u", "pdate" \o propName[1] \o propName[2]>>

\* ---------------------------------------------------------------- values
\* Every JavaScript value of the model has one shape, so any two compare.

Str(s) == [kind |-> "string", s |-> s, n |-> 0]
Num(n) == [kind |-> "number", s |-> "", n |-> n]
Arr(s) == [kind |-> "array", s |-> s, n |-> 0]
Undefined == [kind |-> "undefined", s |-> "", n |-> 0]
\* a reference to function object n (0 is the user's own manual handler)
FnRef(n) == [kind |-> "function", s |-> "", n |-> n]
\* a reference to the location object named s
LocRef(s) == [kind |-> "location", s |-> s, n |-> 0]
\* a reference to router params object n
ParamsRef(n) == [kind |-> "params", s |-> "", n |-> n]

\* A JavaScript object is a function from its own keys to values.
EmptyObject == [k \in {} |-> Undefined]

\* Object.assign(target, source) as the value target has afterwards.
ObjectAssign(target, source) ==
  [k \in (DOMAIN target) \cup (DOMAIN source) |->
    IF k \in DOMAIN source THEN source[k] ELSE target[k]]

\* An optional object: undefined, or an object.
NoObject == [defined |-> FALSE, obj |-> EmptyObject]
Some(o) == [defined |-> TRUE, obj |-> o]

\* ---------------------------------------------------------------- serialize

Digits == <<"1", "2", "3", "4", "5", "6", "7", "8", "9">>

\* encode(type, value) of ../serialize: the string written to the URL.
encode(type, value) ==
  CASE value.kind = "number" /\ value.n \in DOMAIN Digits -> Str(Digits[value.n])
    [] value.kind = "string" -> Str(value.s)
    [] OTHER -> Undefined

\* decode(type, encodedValue) of ../serialize: the typed value of a URL string.
decode(type, encodedValue) ==
  CASE type = "number" /\ encodedValue.kind = "string"
         /\ (\E d \in DOMAIN Digits : Digits[d] = encodedValue.s) ->
           Num(CHOOSE d \in DOMAIN Digits : Digits[d] = encodedValue.s)
    [] type = "string" /\ encodedValue.kind \in {"string", "array"} -> encodedValue
    [] OTHER -> Undefined

\* ---------------------------------------------------------------- query-string
\* location.search is the sequence of its <<key, value>> pairs.

RECURSIVE parseQueryString(_)
parseQueryString(search) ==
  IF search = << >> THEN EmptyObject
  ELSE LET init == parseQueryString(SubSeq(search, 1, Len(search) - 1))
           key == search[Len(search)][1]
           val == search[Len(search)][2]
       IN  IF key \in DOMAIN init
             THEN ObjectAssign(init, [k \in {key} |-> Arr(init[key].s \o "," \o val)])
             ELSE ObjectAssign(init, [k \in {key} |-> Str(val)])

\* The keys a query may hold, in the (sorted) order stringify writes them.
KeyOrder == <<n_bar, n_foo, n_Foo, n_q>>

\* stringify of query-string: the pairs of the keys present, sorted by key.
stringify(query) ==
  LET present == SelectSeq(KeyOrder, LAMBDA k : k \in DOMAIN query)
  IN  [i \in 1..Len(present) |-> <<present[i], query[present[i]].s>>]

\* ---------------------------------------------------------------- locations

QueryLocation(query) ==
  [hasQuery |-> TRUE, query |-> query, hasSearch |-> FALSE, search |-> << >>]
SearchLocation(search) ==
  [hasQuery |-> FALSE, query |-> EmptyObject, hasSearch |-> TRUE, search |-> search]

\* The location objects: two a router may pass as the location prop, the
\* location of urlQueryConfig.history, and window.location.
LP1 == "routerLocation1"
LP2 == "routerLocation2"
LH == "history.location"
LW == "window.location"
LocIds == {LP1, LP2, LH, LW}

\* The query of the URL the browser starts at.
InitialQuery == (n_q :> Str("1")) @@ (n_bar :> Str("x"))

\* The location a history object exposes for a query: history v3 with
\* useQueries exposes `query`, history v4 only `search`.
HistoryLocation(mode, query) ==
  IF mode = "query" THEN QueryLocation(query) ELSE SearchLocation(stringify(query))

InitialHeap(mode) ==
  (LP1 :> QueryLocation((n_q :> Str("2")) @@ (n_bar :> Str("y"))))
  @@ (LP2 :> SearchLocation(<< <<n_q, "3">> >>))
  @@ (LH :> HistoryLocation(mode, InitialQuery))
  @@ (LW :> SearchLocation(stringify(InitialQuery)))

\* The router params objects a parent may pass as props.params.
ParamsTable == << (n_bar :> Str("routed")) @@ (n_id :> Str("7")) >>

\* ---------------------------------------------------------------- configuration

Field(propName, hasQueryParam, queryParam, type, updateType) ==
  [propName |-> propName, hasQueryParam |-> hasQueryParam, queryParam |-> queryParam,
   type |-> type, updateType |-> updateType]

\* The urlPropsQueryConfig objects a wrapper may be given, fields in key order.
Configs == <<
  << Field(n_foo, TRUE, n_q, "number", "pushIn"),
     Field(n_bar, FALSE, n_bar, "string", "undefined") >>,
  << Field(n_foo, FALSE, n_foo, "string", "replaceIn"),
     Field(n_Foo, TRUE, n_q, "string", "undefined") >> >>

Options(cfg, router, changeHandlers, naming, mapUrl, mapHandlers) ==
  [urlPropsQueryConfig |-> cfg, addRouterParams |-> router,
   addUrlChangeHandlers |-> changeHandlers, changeHandlerName |-> naming,
   mapUrlToProps |-> mapUrl, mapUrlChangeHandlersToProps |-> mapHandlers]

\* The options objects addUrlProps is called with (urlPropsQueryConfig 0 is
\* none given).
OptionChoices ==
  { Options(c, r, "false", "none", "default", "none") :
      c \in {0, 1}, r \in {"undefined", "true", "false", "null"} }
  \cup
  { Options(c, "false", h, "none", "default", m) :
      c \in {0, 1}, h \in {"undefined", "true", "false", "null"},
      m \in {"none", "custom"} }
  \cup
  { Options(2, "false", h, "none", "default", "none") : h \in {"undefined", "false"} }
  \cup
  { Options(c, "true", "true", n, "custom", "none") :
      c \in {1, 2}, n \in {"none", "custom"} }

\* The settings urlQueryConfig may hold.
GlobalConfig(changeHandlers, router, naming, history) ==
  [addUrlChangeHandlers |-> changeHandlers, addRouterParams |-> router,
   changeHandlerName |-> naming, history |-> history]

GlobalChoices ==
  { GlobalConfig(TRUE, TRUE, "none", h) : h \in {"none", "query", "search"} }
  \cup { GlobalConfig(FALSE, FALSE, "none", h) : h \in {"query"} }
  \cup { GlobalConfig(TRUE, FALSE, "custom", h) : h \in {"query"} }

\* The props a parent may pass to an instance.
OwnProps ==
  (n_foo :> Str("ownFoo")) @@ (n_title :> Str("t")) @@ (n_onChangeBar :> Str("own"))

MakeProps(loc, params) ==
  ObjectAssign(
    ObjectAssign(OwnProps, IF loc = "" THEN EmptyObject ELSE (n_location :> LocRef(loc))),
    IF params = 0 THEN EmptyObject ELSE (n_params :> ParamsRef(params)))

PropsChoices ==
  { MakeProps(LP1, 1), MakeProps(LP2, 0), MakeProps("", 1) }

\* ---------------------------------------------------------------- state

VARIABLES
  options,            \* the options object addUrlProps(options) was called with
  urlQueryConfig,     \* the global urlQueryConfig singleton
  props,              \* this.props of each AddUrlProps instance
  heap,               \* the location objects, by reference
  url,                \* the browser's current URL: its query, and history.length
  cachedHandlers,     \* `let cachedHandlers` of addPropsWrapper
  changeHandlerName,  \* `let changeHandlerName` of addUrlProps
  fns,                \* the generatedUrlChangeHandler function objects allocated
  handlerProps,       \* the function props each wrapped component last received
  firstGenerated,     \* the handler set of the first render that generated one
  lastRender,         \* what the step just taken did, when it was a render
  lastCall            \* what the step just taken did, when it was a handler call

vars == <<options, urlQueryConfig, props, heap, url, cachedHandlers, changeHandlerName,
          fns, handlerProps, firstGenerated, lastRender, lastCall>>

\* ---------------------------------------------------------------- getUrlObject

\* props.location, or undefined.
LocationProp(p) == IF n_location \in DOMAIN p THEN p[n_location] ELSE Undefined

\* props.params as an object (Object.assign skips an undefined source).
ParamsOf(p) == IF n_params \in DOMAIN p THEN ParamsTable[p[n_params].n] ELSE EmptyObject

\* The location getUrlObject reads: the location prop when it has a query,
\* else the history's location when there is one, else window.location.
SelectLocation(p) ==
  IF LocationProp(p).kind = "location" /\ heap[LocationProp(p).s].hasQuery
    THEN LocationProp(p).s
  ELSE IF urlQueryConfig.history # "none"
    THEN LH
  ELSE LW

\* location.query || parseQueryString(location.search) || {}
CurrentQuery(location) ==
  IF location.hasQuery THEN location.query
  ELSE IF location.hasSearch THEN parseQueryString(location.search)
  ELSE EmptyObject

\* decodeQuery = urlQueryDecoder(urlPropsQueryConfig): a new object holding,
\* for each configured prop, the value of its query parameter decoded by type.
decodeQuery(config, query) ==
  [name \in {config[i].propName : i \in DOMAIN config} |->
    LET field == config[CHOOSE i \in DOMAIN config : config[i].propName = name]
        queryParam == IF field.hasQueryParam THEN field.queryParam ELSE field.propName
    IN  IF queryParam \in DOMAIN query
          THEN decode(field.type, query[queryParam])
          ELSE Undefined]

\* A variant that lets the global setting win over an explicit `false`.
RouterParamsRequestedIgnoringFalse ==
  options.addRouterParams = "true" \/ urlQueryConfig.addRouterParams

\* addRouterParams || (addRouterParams !== false && urlQueryConfig.addRouterParams)
RouterParamsRequested ==
  \/ options.addRouterParams = "true"
  \/ options.addRouterParams # "false" /\ urlQueryConfig.addRouterParams

\* getUrlObject(props): the location read, its query, the result before the
\* router params are added, the result returned, and the location objects as
\* the call leaves them (without a decoder the result is location.query
\* itself, and Object.assign writes into it).
getUrlObject(p) ==
  LET location == SelectLocation(p)
      currentQuery == CurrentQuery(heap[location])
      decoded == options.urlPropsQueryConfig # 0
      result == IF decoded
                  THEN decodeQuery(Configs[options.urlPropsQueryConfig], currentQuery)
                  ELSE currentQuery
      merged == IF RouterParamsRequested THEN ObjectAssign(result, ParamsOf(p)) ELSE result
      aliased == ~decoded /\ heap[location].hasQuery
  IN  [location |-> location,
       currentQuery |-> currentQuery,
       result |-> result,
       url |-> merged,
       heap |-> IF aliased THEN [heap EXCEPT ![location].query = merged] ELSE heap]

\* ---------------------------------------------------------------- mapUrlToProps

\* The default d => d, or a user's (url, props) => ({ title: url.bar }).
mapUrlToProps(kind, urlObject, p) ==
  IF kind = "default" THEN urlObject
  ELSE (n_title :> (IF n_bar \in DOMAIN urlObject THEN urlObject[n_bar] ELSE Undefined))

\* ---------------------------------------------------------------- handlers

\* changeHandlerName(propName) for the naming function in use.
ApplyChangeHandlerName(naming, propName) ==
  CASE naming = "custom" -> optionChangeHandlerName(propName)
    [] naming = "global" -> globalChangeHandlerName(propName)
    [] OTHER -> defaultChangeHandlerName(propName)

\* urlQueryConfig.changeHandlerName || defaultChangeHandlerName
GlobalOrDefaultName ==
  IF urlQueryConfig.changeHandlerName = "custom" THEN "global" ELSE "default"

\* A variant that lets the global setting win over an explicit `false`.
ChangeHandlersRequestedIgnoringFalse ==
  options.addUrlChangeHandlers = "true" \/ urlQueryConfig.addUrlChangeHandlers

\* addUrlChangeHandlers || (addUrlChangeHandlers == null && urlQueryConfig.addUrlChangeHandlers)
ChangeHandlersRequested ==
  \/ options.addUrlChangeHandlers = "true"
  \/ options.addUrlChangeHandlers \in {"undefined", "null"}
       /\ urlQueryConfig.addUrlChangeHandlers

\* The function object the reduce callback creates for one field, bound to
\* the instance whose render runs the generation.
NewHandler(self, field) ==
  [self |-> self, propName |-> field.propName, updateType |-> field.updateType,
   queryParam |-> IF field.hasQueryParam THEN field.queryParam ELSE field.propName,
   type |-> field.type]

\* A variant of the reduce that keeps the first handler stored under a name.
GenerateHandlersFirstWins(config, naming, base) ==
  LET nameOf(i) == ApplyChangeHandlerName(naming, config[i].propName)
  IN  [name \in {nameOf(i) : i \in DOMAIN config} |->
        FnRef(base + CHOOSE i \in DOMAIN config :
                       /\ nameOf(i) = name
                       /\ \A j \in DOMAIN config : nameOf(j) = name => i <= j)]

\* Object.keys(urlPropsQueryConfig).reduce(...): one new function per field,
\* stored under its handler name; a later field of the same name replaces an
\* earlier one. `base` is the number of function objects that exist already.
GenerateHandlers(config, naming, base) ==
  LET nameOf(i) == ApplyChangeHandlerName(naming, config[i].propName)
  IN  [name \in {nameOf(i) : i \in DOMAIN config} |->
        FnRef(base + CHOOSE i \in DOMAIN config :
                       /\ nameOf(i) = name
                       /\ \A j \in DOMAIN config : nameOf(j) = name => j <= i)]

\* A variant that generates new functions on every render.
CachedOrGeneratedNoCache(self, config) ==
  LET naming == IF changeHandlerName = "none" THEN GlobalOrDefaultName
                ELSE changeHandlerName
  IN  [handlers |-> GenerateHandlers(config, naming, Len(fns)),
       changeHandlerName |-> naming,
       fns |-> fns \o [i \in DOMAIN config |-> NewHandler(self, config[i])]]

\* if (cachedHandlers) handlers = cachedHandlers; else generate and cache.
CachedOrGenerated(self, config) ==
  IF cachedHandlers.defined
    THEN [handlers |-> cachedHandlers.obj,
          changeHandlerName |-> changeHandlerName,
          fns |-> fns]
    ELSE LET naming == IF changeHandlerName = "none" THEN GlobalOrDefaultName
                       ELSE changeHandlerName
         IN  [handlers |-> GenerateHandlers(config, naming, Len(fns)),
              changeHandlerName |-> naming,
              fns |-> fns \o [i \in DOMAIN config |-> NewHandler(self, config[i])]]

\* A user's mapUrlChangeHandlersToProps: (props, handlers) =>
\* Object.assign({ onManual: manual }, handlers).
mapUrlChangeHandlersToProps(propsWithUrl, handlers) ==
  ObjectAssign((n_onManual :> FnRef(0)), IF handlers.defined THEN handlers.obj ELSE EmptyObject)

\* getUrlChangeHandlerProps(propsWithUrl) run by instance `self`: the
\* generated set, the set returned, and the closure variables afterwards.
getUrlChangeHandlerProps(self, propsWithUrl) ==
  LET generate == options.urlPropsQueryConfig # 0 /\ ChangeHandlersRequested
      g == IF generate
             THEN CachedOrGenerated(self, Configs[options.urlPropsQueryConfig])
             ELSE [handlers |-> EmptyObject, changeHandlerName |-> changeHandlerName,
                   fns |-> fns]
      generated == IF generate THEN Some(g.handlers) ELSE NoObject
  IN  [generated |-> generated,
       handlers |-> IF options.mapUrlChangeHandlersToProps = "custom"
                      THEN Some(mapUrlChangeHandlersToProps(propsWithUrl, generated))
                      ELSE generated,
       cachedHandlers |-> IF generate THEN generated ELSE cachedHandlers,
       changeHandlerName |-> g.changeHandlerName,
       fns |-> g.fns]

\* ---------------------------------------------------------------- render

NoRender ==
  [done |-> FALSE, self |-> 0, props |-> EmptyObject, location |-> "",
   currentQuery |-> EmptyObject, result |-> EmptyObject, url |-> EmptyObject,
   mapped |-> EmptyObject, generated |-> NoObject, handlers |-> NoObject,
   passed |-> EmptyObject, locationsBefore |-> EmptyObject]

NoCall ==
  [done |-> FALSE, caller |-> 0, fn |-> 0, value |-> Undefined, updates |-> << >>,
   urlBefore |-> EmptyObject]

\* The props of kind function among the props passed to the wrapped component.
FunctionProps(passed) ==
  [name \in {k \in DOMAIN passed : passed[k].kind = "function"} |-> passed[name]]

\* A variant with the sources in the other order, so own props win.
PropsWithUrlOwnPropsLast(ownProps, mapped) ==
  ObjectAssign(ObjectAssign(EmptyObject, mapped), ownProps)

\* Object.assign({}, this.props, mapUrlToProps(url, this.props))
PropsWithUrl(ownProps, mapped) ==
  ObjectAssign(ObjectAssign(EmptyObject, ownProps), mapped)

\* AddUrlProps.render() of instance `self`.
Render(self) ==
  LET u == getUrlObject(props[self])
      mapped == mapUrlToProps(options.mapUrlToProps, u.url, props[self])
      propsWithUrl == PropsWithUrl(props[self], mapped)
      h == getUrlChangeHandlerProps(self, propsWithUrl)
      passed == IF h.handlers.defined THEN ObjectAssign(propsWithUrl, h.handlers.obj)
                ELSE propsWithUrl
  IN  /\ Len(h.fns) <= MaxFunctions
      /\ heap' = u.heap
      /\ cachedHandlers' = h.cachedHandlers
      /\ changeHandlerName' = h.changeHandlerName
      /\ fns' = h.fns
      /\ handlerProps' = [handlerProps EXCEPT ![self] = FunctionProps(passed)]
      /\ firstGenerated' = IF firstGenerated.defined THEN firstGenerated ELSE h.generated
      /\ lastRender' = [done |-> TRUE, self |-> self, props |-> props[self],
                        location |-> u.location, currentQuery |-> u.currentQuery,
                        result |-> u.result, url |-> u.url, mapped |-> mapped,
                        generated |-> h.generated, handlers |-> h.handlers,
                        passed |-> passed, locationsBefore |-> heap]
      /\ lastCall' = NoCall
      /\ UNCHANGED <<options, urlQueryConfig, props, url>>

\* ---------------------------------------------------------------- change handlers

\* The values a wrapped component may call a change handler of a field of
\* the given type with.
HandlerArgs(type) == IF type = "number" THEN {Num(2)} ELSE {Str("z")}

\* A variant that writes under the prop name, ignoring queryParam.
generatedUrlChangeHandlerByPropName(fn, value) ==
  << [updateType |-> fn.updateType, queryParam |-> fn.propName,
      encodedValue |-> encode(fn.type, value),
      location |-> LocationProp(props[fn.self])] >>

\* generatedUrlChangeHandler(value) of function object `fn`: the calls of
\* updateUrlQuerySingle it makes, in order. `this` is the instance the
\* function was bound to.
generatedUrlChangeHandler(fn, value) ==
  LET encodedValue == encode(fn.type, value)
  IN  << [updateType |-> fn.updateType, queryParam |-> fn.queryParam,
          encodedValue |-> encodedValue, location |-> LocationProp(props[fn.self])] >>

\* updateUrlQuerySingle(updateType, queryParam, encodedValue, location) of
\* ../updateUrlQuery: the URL after the update. The query field is set in a
\* new history entry (pushIn) or in the current one (replaceIn, the default).
updateUrlQuerySingle(current, call) ==
  [query |-> ObjectAssign(current.query,
                          [k \in {call.queryParam} |-> call.encodedValue]),
   length |-> IF call.updateType = "pushIn" THEN current.length + 1 ELSE current.length]

RECURSIVE ApplyUpdates(_, _)
ApplyUpdates(current, calls) ==
  IF calls = << >> THEN current
  ELSE ApplyUpdates(updateUrlQuerySingle(current, Head(calls)), Tail(calls))

\* The wrapped component of instance `self` calls its prop `name` with `value`.
CallHandler(self, name, value) ==
  /\ name \in DOMAIN handlerProps[self]
  /\ handlerProps[self][name].n \in DOMAIN fns
  /\ value \in HandlerArgs(fns[handlerProps[self][name].n].type)
  /\ LET updates == generatedUrlChangeHandler(fns[handlerProps[self][name].n], value)
         updated == ApplyUpdates(url, updates)
         query == updated.query
     IN  /\ updated.length <= MaxHistory
         /\ url' = updated
         /\ heap' = [heap EXCEPT ![LH] = HistoryLocation(urlQueryConfig.history, query),
                                 ![LW] = SearchLocation(stringify(query))]
         /\ lastCall' = [done |-> TRUE, caller |-> self, fn |-> handlerProps[self][name].n,
                         value |-> value, updates |-> updates,
                         urlBefore |-> url.query]
  /\ lastRender' = NoRender
  /\ UNCHANGED <<options, urlQueryConfig, props, cachedHandlers, changeHandlerName, fns,
                 handlerProps, firstGenerated>>

\* ---------------------------------------------------------------- environment

\* The parent re-renders instance `self` with other props.
SetProps(self, p) ==
  /\ p # props[self]
  /\ props' = [props EXCEPT ![self] = p]
  /\ lastRender' = NoRender
  /\ lastCall' = NoCall
  /\ UNCHANGED <<options, urlQueryConfig, heap, url, cachedHandlers, changeHandlerName,
                 fns, handlerProps, firstGenerated>>

\* The application changes the settings of urlQueryConfig (configureUrlQuery).
SetUrlQueryConfig(c) ==
  /\ c # urlQueryConfig
  /\ c.history = urlQueryConfig.history
  /\ urlQueryConfig' = c
  /\ lastRender' = NoRender
  /\ lastCall' = NoCall
  /\ UNCHANGED <<options, props, heap, url, cachedHandlers, changeHandlerName, fns,
                 handlerProps, firstGenerated>>

\* ---------------------------------------------------------------- specification

Init ==
  /\ options \in OptionChoices
  /\ urlQueryConfig \in GlobalChoices
  /\ props = [i \in Instances |-> MakeProps("", 1)]
  /\ heap = InitialHeap(urlQueryConfig.history)
  /\ url = [query |-> InitialQuery, length |-> 1]
  /\ cachedHandlers = NoObject
  /\ changeHandlerName = options.changeHandlerName
  /\ fns = << >>
  /\ handlerProps = [i \in Instances |-> EmptyObject]
  /\ firstGenerated = NoObject
  /\ lastRender = NoRender
  /\ lastCall = NoCall

Next ==
  \/ \E self \in Instances : Render(self)
  \/ \E self \in Instances : \E p \in PropsChoices : SetProps(self, p)
  \/ \E self \in Instances : \E name \in DOMAIN handlerProps[self] :
       \E value \in {Num(2), Str("z")} : CallHandler(self, name, value)
  \/ \E c \in GlobalChoices : SetUrlQueryConfig(c)

Spec == Init /\ [][Next]_vars

\* ---------------------------------------------------------------- properties

\* The configuration given to the wrapper, when one is given.
TheConfig == Configs[options.urlPropsQueryConfig]

\* C1: every render reads the query from the location prop when one is
\* supplied (exposing query or search), else from the history's location when
\* there is one, else from window.location.
C1_LocationPropFirst ==
  lastRender.done =>
    lastRender.location =
      IF LocationProp(lastRender.props).kind = "location"
        THEN LocationProp(lastRender.props).s
      ELSE IF urlQueryConfig.history # "none" THEN LH
      ELSE LW

\* C5: with addRouterParams enabled every router param is in the object
\* getUrlObject returns, and a name that is both a URL-derived value and a
\* router param keeps the URL-derived value.
C5_RouterParamsNeverOverwrite ==
  LET enabled == \/ options.addRouterParams = "true"
                 \/ options.addRouterParams \in {"undefined", "null"}
                      /\ urlQueryConfig.addRouterParams
      params == ParamsOf(lastRender.props)
  IN  lastRender.done /\ enabled =>
        \A k \in DOMAIN params :
          /\ k \in DOMAIN lastRender.url
          /\ k \in DOMAIN lastRender.result => lastRender.url[k] = lastRender.result[k]

\* C6 as stated: without a urlPropsQueryConfig the URL object has exactly the
\* keys and values of the parsed query of the location read.
C6_RawQueryExactly ==
  lastRender.done /\ options.urlPropsQueryConfig = 0 =>
    lastRender.url = lastRender.currentQuery

\* C6 as amended: without a urlPropsQueryConfig the URL object holds the keys
\* of the parsed query and, when addRouterParams is enabled, those of
\* props.params, and nothing else; every key that is not a merged router
\* param has the value the parsed query gives it, under the same name.
C6_RawQueryApartFromRouterParams ==
  LET enabled == \/ options.addRouterParams = "true"
                 \/ options.addRouterParams \in {"undefined", "null"}
                      /\ urlQueryConfig.addRouterParams
      merged == IF enabled THEN DOMAIN ParamsOf(lastRender.props) ELSE {}
  IN  lastRender.done /\ options.urlPropsQueryConfig = 0 =>
        /\ DOMAIN lastRender.url = (DOMAIN lastRender.currentQuery) \cup merged
        /\ \A k \in (DOMAIN lastRender.currentQuery) \ merged :
             lastRender.url[k] = lastRender.currentQuery[k]

\* A render without a configuration whose router params are merged into a
\* query that has keys of its own.
C6_Witness ==
  /\ lastRender.done
  /\ options.urlPropsQueryConfig = 0
  /\ n_id \in DOMAIN lastRender.url
  /\ n_q \in DOMAIN lastRender.url
  /\ lastRender.url[n_q] = Str("2")

\* C9: a render leaves every location object as it was: the query of the
\* location prop, of the history's location and of window.location keep
\* their keys and values.
C9_RenderLeavesLocations ==
  lastRender.done => heap = lastRender.locationsBefore

\* C10: the props passed to the wrapped component are the own props, overlaid
\* by mapUrlToProps(url, props), overlaid by the change handlers; the own
\* props are left as they were.
C10_PropsOverlay ==
  LET own == lastRender.props
      mapped == lastRender.mapped
      handlers == IF lastRender.handlers.defined THEN lastRender.handlers.obj
                  ELSE EmptyObject
      passed == lastRender.passed
  IN  lastRender.done =>
        /\ DOMAIN passed = (DOMAIN own) \cup (DOMAIN mapped) \cup (DOMAIN handlers)
        /\ \A k \in DOMAIN passed :
             passed[k] = IF k \in DOMAIN handlers THEN handlers[k]
                         ELSE IF k \in DOMAIN mapped THEN mapped[k]
                         ELSE own[k]
        /\ props[lastRender.self] = own

\* A render in which an own prop is replaced by a URL-derived value, another
\* by a generated handler, and a third passes through.
C10_Witness ==
  /\ lastRender.done
  /\ n_foo \in DOMAIN lastRender.mapped
  /\ lastRender.props[n_foo] = Str("ownFoo")
  /\ lastRender.passed[n_foo] = Num(2)
  /\ lastRender.passed[n_onChangeBar].kind = "function"
  /\ lastRender.passed[n_title] = Str("t")

\* The field of the configuration that function object `fn` was made for.
FieldOf(fn) == TheConfig[CHOOSE i \in DOMAIN TheConfig : TheConfig[i].propName = fn.propName]

\* C2: a call of a generated handler makes exactly one updateUrlQuerySingle
\* call, with the field's updateType, its queryParam (the prop name when none
\* is configured) and encode(type, value); afterwards that query field holds
\* the encoded value and every other field of the URL query is as before.
C2_OneUpdateOfOneField ==
  lastCall.done =>
    LET field == FieldOf(fns[lastCall.fn])
        key == IF field.hasQueryParam THEN field.queryParam ELSE field.propName
        before == lastCall.urlBefore
        after == url.query
    IN  /\ Len(lastCall.updates) = 1
        /\ lastCall.updates[1].updateType = field.updateType
        /\ lastCall.updates[1].queryParam = key
        /\ lastCall.updates[1].encodedValue = encode(field.type, lastCall.value)
        /\ after[key] = encode(field.type, lastCall.value)
        /\ \A k \in ((DOMAIN before) \cup (DOMAIN after)) \ {key} :
             k \in DOMAIN before /\ k \in DOMAIN after /\ after[k] = before[k]

\* A call of the handler of a field whose queryParam differs from its prop
\* name, on a URL that has another field.
C2_Witness ==
  /\ lastCall.done
  /\ fns[lastCall.fn].propName = n_foo
  /\ lastCall.updates[1].queryParam = n_q
  /\ lastCall.updates[1].encodedValue = Str("2")
  /\ url.query[n_q] = Str("2")
  /\ n_bar \in DOMAIN url.query

\* The naming strategy C3 names: the wrapper option, else the global one,
\* else the default.
StatedNaming ==
  IF options.changeHandlerName = "custom" THEN "custom"
  ELSE IF urlQueryConfig.changeHandlerName = "custom" THEN "global"
  ELSE "default"

\* C3 as stated: when handlers are generated, every configured field has a
\* handler of its own under the name the naming strategy gives it, so n
\* fields yield n handler props.
C3_OneHandlerPerField ==
  lastRender.done /\ lastRender.generated.defined =>
    LET set == lastRender.generated.obj
    IN  /\ \A i \in DOMAIN TheConfig :
             LET name == ApplyChangeHandlerName(StatedNaming, TheConfig[i].propName)
             IN  /\ name \in DOMAIN set
                 /\ set[name].n \in DOMAIN fns
                 /\ fns[set[name].n].propName = TheConfig[i].propName
        /\ Cardinality(DOMAIN set) = Len(TheConfig)

\* C3 as amended: when handlers are generated, every configured field has a
\* handler prop under the name given to it by the naming strategy the wrapper
\* resolved when it first generated handlers (the wrapper option, else the
\* global one of that moment, else the default); the prop holds the handler of
\* the last configured field of that name, which updates that field's query
\* parameter, so the set has one handler per distinct name.
C3_OneHandlerPerName ==
  lastRender.done /\ lastRender.generated.defined =>
    LET set == lastRender.generated.obj
        nameOf(i) == ApplyChangeHandlerName(changeHandlerName, TheConfig[i].propName)
        last(i) == \A j \in DOMAIN TheConfig : nameOf(j) = nameOf(i) => j <= i
    IN  /\ changeHandlerName # "none"
        /\ options.changeHandlerName = "custom" => changeHandlerName = "custom"
        /\ \A i \in DOMAIN TheConfig :
             /\ nameOf(i) \in DOMAIN set
             /\ set[nameOf(i)].n \in DOMAIN fns
             /\ last(i) =>
                  /\ fns[set[nameOf(i)].n].propName = TheConfig[i].propName
                  /\ fns[set[nameOf(i)].n].queryParam =
                       IF TheConfig[i].hasQueryParam THEN TheConfig[i].queryParam
                       ELSE TheConfig[i].propName
        /\ DOMAIN set = {nameOf(i) : i \in DOMAIN TheConfig}
        /\ changeHandlerName = "default" /\ (\E i \in DOMAIN TheConfig :
               TheConfig[i].propName = n_foo) => <<"o", "nChangeFoo">> \in DOMAIN set

\* A render that generated handlers for two fields, foo and Foo, which the
\* default naming both calls onChangeFoo.
C3_Witness ==
  /\ lastRender.done
  /\ lastRender.generated.defined
  /\ options.urlPropsQueryConfig = 2
  /\ changeHandlerName = "default"
  /\ DOMAIN lastRender.generated.obj = {<<"o", "nChangeFoo">>}
  /\ fns[lastRender.generated.obj[<<"o", "nChangeFoo">>].n].propName = n_Foo

\* C4: in every render that passes generated handlers, the function under
\* each generated name is the one the first generating render passed.
C4_HandlersAreReused ==
  lastRender.done /\ lastRender.generated.defined =>
    /\ firstGenerated.defined
    /\ lastRender.generated.obj = firstGenerated.obj
    /\ options.mapUrlChangeHandlersToProps = "none" =>
         \A name \in DOMAIN firstGenerated.obj :
           lastRender.passed[name] = firstGenerated.obj[name]

\* A later render, by another instance with other props and after a URL
\* change, that passes the handlers generated in the first one.
C4_Witness ==
  /\ lastRender.done
  /\ lastRender.generated.defined
  /\ lastRender.generated.obj # EmptyObject
  /\ \E name \in DOMAIN lastRender.generated.obj :
       fns[lastRender.generated.obj[name].n].self # lastRender.self
  /\ props[1] # props[2]
  /\ url.query # InitialQuery

\* C7: a render has generated handlers exactly when a urlPropsQueryConfig is
\* supplied and addUrlChangeHandlers is true, or is null or undefined with the
\* global setting on; otherwise no handler is generated and
\* mapUrlChangeHandlersToProps, when supplied, gets no generated set.
C7_HandlersExactlyWhenRequested ==
  LET requested ==
        /\ options.urlPropsQueryConfig # 0
        /\ \/ options.addUrlChangeHandlers = "true"
           \/ options.addUrlChangeHandlers \in {"null", "undefined"}
                /\ urlQueryConfig.addUrlChangeHandlers
  IN  lastRender.done =>
        /\ lastRender.generated.defined <=> requested
        /\ requested =>
             /\ lastRender.generated.obj # EmptyObject
             /\ \A name \in DOMAIN lastRender.generated.obj :
                  /\ lastRender.generated.obj[name].n \in DOMAIN fns
                  /\ options.mapUrlChangeHandlersToProps = "none" =>
                       lastRender.passed[name] = lastRender.generated.obj[name]
        /\ ~requested =>
             /\ \A k \in DOMAIN lastRender.passed :
                  lastRender.passed[k].kind = "function" => lastRender.passed[k].n = 0
             /\ lastRender.handlers.defined <=>
                  options.mapUrlChangeHandlersToProps = "custom"
             /\ lastRender.handlers.defined =>
                  lastRender.handlers.obj = (n_onManual :> FnRef(0))

\* A render with a configuration and addUrlChangeHandlers: false while the
\* global setting is on and mapUrlChangeHandlersToProps is supplied.
C7_Witness ==
  /\ lastRender.done
  /\ options.urlPropsQueryConfig # 0
  /\ options.addUrlChangeHandlers = "false"
  /\ urlQueryConfig.addUrlChangeHandlers
  /\ options.mapUrlChangeHandlersToProps = "custom"
  /\ ~lastRender.generated.defined
  /\ lastRender.passed[n_onManual] = FnRef(0)

\* C8: a generated handler called by the wrapped component of an instance
\* passes updateUrlQuerySingle the location prop that instance holds at the
\* time of the call.
C8_HandlerUsesOwnLocation ==
  lastCall.done =>
    \A i \in DOMAIN lastCall.updates :
      lastCall.updates[i].location = LocationProp(props[lastCall.caller])

====
